---- MODULE Spec2Model ----
(***************************************************************************)
(* Model of src/localize_strings.py: the String Catalog localizer.        *)
(* Strings are sequences of one-character strings, so that strip, split   *)
(* and the separator search of translate_batch are computed, not assumed. *)
(***************************************************************************)
EXTENDS Integers, Sequences, FiniteSets, TLC

\* ------------------------------------------------------------------ bounds
\* batch_size is 100 in the source (line 185); the model scales it down.
batch_size == 2
\* the worker cap is 20 in the source (line 279); the model scales it down.
max_workers == 2
MaxLocales == 3
MaxLocalesTwo == 2
MaxKeys == 3
MaxRespLen == 4
MaxBatch == 3

\* ------------------------------------------------------- character strings
NL == "\n"
SP == " "
BAR == "|"
DOT == "."

IsSpace(c) == c \in {SP, NL}

RECURSIVE lstrip(_)
lstrip(s) == IF s # <<>> /\ IsSpace(Head(s)) THEN lstrip(Tail(s)) ELSE s

RECURSIVE rstrip(_)
rstrip(s) ==
  IF s # <<>> /\ IsSpace(s[Len(s)]) THEN rstrip(SubSeq(s, 1, Len(s) - 1)) ELSE s

\* str.strip()
strip(s) == rstrip(lstrip(s))

\* first position at which sep occurs in s, 0 when it does not ('sep in s')
find(s, sep) ==
  LET hits == {i \in 1..(Len(s) - Len(sep) + 1) : SubSeq(s, i, i + Len(sep) - 1) = sep}
  IN IF hits = {} THEN 0 ELSE CHOOSE i \in hits : \A j \in hits : i <= j

\* the part after the first sep: line.split(sep, 1)[1]
after_sep(s, sep) == SubSeq(s, find(s, sep) + Len(sep), Len(s))

\* str.split('\n')
RECURSIVE split_lines(_)
split_lines(s) ==
  LET i == find(s, <<NL>>)
  IN IF i = 0 THEN <<s>>
     ELSE <<SubSeq(s, 1, i - 1)>> \o split_lines(SubSeq(s, i + 1, Len(s)))

\* "\n".join(lines)
RECURSIVE join_lines(_)
join_lines(ls) ==
  IF ls = <<>> THEN <<>>
  ELSE IF Len(ls) = 1 THEN ls[1]
  ELSE ls[1] \o <<NL>> \o join_lines(Tail(ls))

\* ------------------------------------------------------- translate_batch
\* A collaborator outcome: the call raised, the message content was None
\* (so .strip() raises inside the try), or a text came back.
RespError == [kind |-> "error", content |-> <<>>]
RespNone == [kind |-> "none", content |-> <<>>]
RespText(t) == [kind |-> "text", content |-> t]

\* lines 144-153: the translation taken from one stripped, non-empty line
parse_line(line) ==
  IF find(line, <<BAR>>) # 0 THEN strip(after_sep(line, <<BAR>>))
  ELSE IF find(line, <<DOT, SP>>) # 0 THEN strip(after_sep(line, <<DOT, SP>>))
  ELSE line

\* lines 141-142 left out: an empty line yields an empty translation
parse_lines_mut(ls) == [i \in 1..Len(ls) |-> parse_line(strip(ls[i]))]

\* lines 138-153: the translations list built from the response text
RECURSIVE parse_lines(_)
parse_lines(ls) ==
  IF ls = <<>> THEN <<>>
  ELSE LET line == strip(Head(ls))
       IN IF line = <<>> THEN parse_lines(Tail(ls))
          ELSE <<parse_line(line)>> \o parse_lines(Tail(ls))

\* the padding taken from the start of the batch instead of the same positions
pad_mut(translations, texts) ==
  IF Len(translations) >= Len(texts) THEN translations
  ELSE translations \o SubSeq(texts, 1, Len(texts) - Len(translations))

\* lines 156-157: while len(translations) < len(texts): append texts[len(translations)]
pad(translations, texts) ==
  IF Len(translations) >= Len(texts) THEN translations
  ELSE translations \o SubSeq(texts, Len(translations) + 1, Len(texts))

\* the slice of line 163 left out
truncate_mut(translations, texts) == translations

\* line 163: translations[:len(texts)]
truncate(translations, texts) ==
  SubSeq(translations, 1, IF Len(translations) < Len(texts) THEN Len(translations) ELSE Len(texts))

\* the except branch returning nothing instead of the batch
on_exception_mut(texts) == [raised |-> FALSE, result |-> <<>>]

\* lines 165-167: except Exception -> return texts
on_exception(texts) == [raised |-> FALSE, result |-> texts]

\* lines 103-167
translate_batch(texts, resp) ==
  IF texts = <<>> THEN [raised |-> FALSE, result |-> <<>>]
  ELSE IF resp.kind # "text" THEN on_exception(texts)
  ELSE [raised |-> FALSE,
        result |-> truncate(pad(parse_lines(split_lines(strip(resp.content))), texts), texts)]

\* --------------------------------------------------------------- catalog
\* The Catalog is data['strings']: an ordered mapping key -> Entry, kept as
\* the sequence of its items in dict (= file) order.  An Entry has or has not
\* a 'localizations' map, itself ordered: a sequence of
\* [code, state, value] items.
NoLoc(key) == [key |-> key, hasLoc |-> FALSE, locs |-> <<>>]
EmptyLoc(key) == [key |-> key, hasLoc |-> TRUE, locs |-> <<>>]
OneLoc(key, code, state, value) ==
  [key |-> key, hasLoc |-> TRUE,
   locs |-> <<[code |-> code, state |-> state, value |-> value]>>]

codes(locs) == {locs[i].code : i \in 1..Len(locs)}
keys_of(cat) == {cat[i].key : i \in 1..Len(cat)}
entry_of(cat, key) == cat[CHOOSE i \in 1..Len(cat) : cat[i].key = key]
loc_of(entry, code) ==
  entry.locs[CHOOSE i \in 1..Len(entry.locs) : entry.locs[i].code = code]
has_loc(entry, code) == entry.hasLoc /\ code \in codes(entry.locs)

\* lines 177-181: the two 'continue' tests of the diff loop
\* the test without strip(): only the empty key is skipped
skip_blank_mut(key) == key = <<>>
skip_blank(key) == strip(key) = <<>>
skip_localized_mut(entry, lang_code) == FALSE
skip_localized(entry, lang_code) == entry.hasLoc /\ lang_code \in codes(entry.locs)

\* lines 175-182: strings_to_translate
RECURSIVE strings_to_translate(_, _)
strings_to_translate(cat, lang_code) ==
  IF cat = <<>> THEN <<>>
  ELSE IF skip_blank(Head(cat).key) \/ skip_localized(Head(cat), lang_code)
       THEN strings_to_translate(Tail(cat), lang_code)
       ELSE <<Head(cat).key>> \o strings_to_translate(Tail(cat), lang_code)

\* the localization always added, an existing one for the code not replaced
set_loc_append(locs, lang_code, translation) ==
  Append(locs, [code |-> lang_code, state |-> "translated", value |-> translation])

\* the assignment replacing the whole localizations map
set_loc_mut(locs, lang_code, translation) ==
  <<[code |-> lang_code, state |-> "translated", value |-> translation]>>

\* lines 312-317: localizations[lang_code] = {stringUnit: {state, value}};
\* a dict assignment keeps the place of an existing code and appends a new one
set_loc(locs, lang_code, translation) ==
  LET item == [code |-> lang_code, state |-> "translated", value |-> translation]
  IN IF lang_code \in codes(locs)
     THEN [i \in 1..Len(locs) |-> IF locs[i].code = lang_code THEN item ELSE locs[i]]
     ELSE Append(locs, item)

\* lines 309-310 left out: an entry without a localizations map is not written
write_translation_mut(cat, lang_code, key, translation) ==
  [i \in 1..Len(cat) |->
     IF cat[i].key = key /\ cat[i].hasLoc
     THEN [key |-> key, hasLoc |-> TRUE,
           locs |-> set_loc(cat[i].locs, lang_code, translation)]
     ELSE cat[i]]

\* lines 309-317: one (key, translation) of a result written into the Catalog
write_translation(cat, lang_code, key, translation) ==
  [i \in 1..Len(cat) |->
     IF cat[i].key = key
     THEN [key |-> key, hasLoc |-> TRUE,
           locs |-> set_loc(IF cat[i].hasLoc THEN cat[i].locs ELSE <<>>, lang_code, translation)]
     ELSE cat[i]]

\* lines 308-317 / 326-335: for key, translation in translations.items()
RECURSIVE apply_translations(_, _, _)
apply_translations(cat, lang_code, translations) ==
  IF translations = <<>> THEN cat
  ELSE apply_translations(
         write_translation(cat, lang_code, Head(translations).key, Head(translations).value),
         lang_code, Tail(translations))

\* ----------------------------------------------------------- collaborator
\* Deterministic stub collaborators standing for client.chat.completions.create
\* (lines 124-135).  The "translation" of a text into a language is the text
\* prefixed by a letter of the language.
LocaleOrder == <<"fr", "de", "es", "it">>
Letter(lang_code) ==
  CASE lang_code = "fr" -> "f" [] lang_code = "de" -> "d"
    [] lang_code = "es" -> "e" [] OTHER -> "i"
Tr(lang_code, text) == <<Letter(lang_code)>> \o text
Digit(i) == <<"1", "2", "3", "4", "5", "6", "7", "8", "9">>[i]

Stubs == {"indexed", "dropfirst", "failfirst", "fail"}

Collaborator(s, texts, lang_code) ==
  CASE s = "fail" -> RespError
    [] s = "failfirst" /\ texts[1] = <<"A">> -> RespError
    [] s = "dropfirst" ->
         RespText(join_lines([i \in 1..(Len(texts) - 1) |-> Tr(lang_code, texts[i + 1])]))
    [] OTHER ->
         RespText(join_lines([i \in 1..Len(texts) |->
                                <<Digit(i), BAR>> \o Tr(lang_code, texts[i])]))

\* ------------------------------------------------------------------ state
VARIABLES
  input,        \* the Catalog in the input file
  languages,    \* the locale table, a sequence of locale codes in table order
  parallel,     \* the parallel flag of localize_xcstrings
  stub,         \* which deterministic collaborator answers
  faulty,       \* locales whose pipeline raises an unexpected exception
  data,         \* data['strings'], the Catalog in memory
  pc,           \* position of localize_xcstrings
  pipe,         \* per locale: the state of its translate_language call
  collected,    \* futures already yielded by as_completed
  all_results,  \* line 288
  reported,     \* locales named in an "Error translating" line (line 302)
  apply_idx,    \* results of all_results already applied (line 307)
  seq_idx,      \* position of the sequential loop (line 321)
  saved,        \* the output file: <<>> or <<catalog>>
  save_count,   \* number of calls of save_xcstrings
  first,        \* <<>> or <<record of the finished first run>>
  tb,           \* a translate_batch call on its own: texts, response, outcome
  main          \* main(): its environment, its position and the exit status

vars == <<input, languages, parallel, stub, faulty, data, pc, pipe, collected,
          all_results, reported, apply_idx, seq_idx, saved, save_count, first, tb, main>>

config == <<languages, stub, faulty>>

Min(a, b) == IF a < b THEN a ELSE b
Range(f) == {f[i] : i \in DOMAIN f}
Locales == Range(LocaleOrder)
lang_set == Range(languages)

IdlePipe ==
  [st |-> "Idle", strings_to_translate |-> <<>>, pos |-> 0, batch |-> <<>>,
   language_translations |-> <<>>, translated_count |-> 0,
   current_batch_num |-> 0, estimated_batches |-> 0, starts |-> 0,
   sent |-> <<>>]

NoCall == [texts |-> <<>>, resp |-> RespError, out |-> <<>>]

\* localize_xcstrings called directly on a readable Catalog file
MainCall ==
  [api_key |-> TRUE, file_exists |-> TRUE, has_strings |-> TRUE, answer |-> "y",
   pc |-> "localize", exit_status |-> -1]

\* --------------------------------------------------------------- inputs
KeyOrder == << <<>>, <<"A">>, <<"B">>, <<"C">>, <<SP>> >>
KeyWindows ==
  {ks \in {SubSeq(KeyOrder, i, j) : i \in 1..Len(KeyOrder), j \in 0..Len(KeyOrder)} :
     Len(ks) <= MaxKeys}
Plain(ks) == [i \in 1..Len(ks) |-> NoLoc(ks[i])]
\* entries that differ from {}: an empty localizations map, an existing
\* localization in a state other than "translated"
Variants(key) == {EmptyLoc(key), OneLoc(key, "fr", "needs_review", <<"x">>)}
\* catalogs in which at most one entry differs from {}
Catalogs ==
  UNION {{Plain(ks)} \cup
         UNION {{[Plain(ks) EXCEPT ![i] = e] : e \in Variants(ks[i])} : i \in 1..Len(ks)} :
         ks \in KeyWindows}
Tables == {SubSeq(LocaleOrder, 1, n) : n \in 0..MaxLocales}
TablesTwo == {SubSeq(LocaleOrder, 1, n) : n \in 0..MaxLocalesTwo}
\* no pipeline raises, or the pipeline of one locale does
FaultySets(langs) == {{}} \cup {{l} : l \in Range(langs)}

InitWith(cats, tables, stubs) ==
  /\ input \in cats
  /\ languages \in tables
  /\ parallel \in BOOLEAN
  /\ stub \in stubs
  /\ faulty \in FaultySets(languages)
  /\ data = <<>>
  /\ pc = "load"
  /\ pipe = [l \in Locales |-> IdlePipe]
  /\ collected = {}
  /\ all_results = <<>>
  /\ reported = <<>>
  /\ apply_idx = 0
  /\ seq_idx = 1
  /\ saved = <<>>
  /\ save_count = 0
  /\ first = <<>>
  /\ tb = NoCall
  /\ main = MainCall

Init == InitWith(Catalogs, Tables, Stubs)

\* ------------------------------------------------------ localize_xcstrings
\* the pool sized by the number of locales alone
worker_cap_mut == Len(languages)

\* line 279: max_workers=min(len(languages), 20)
worker_cap == Min(Len(languages), max_workers)

running == {l \in lang_set : pipe[l].st \in {"Diffing", "BatchLoop"}}
finished == {l \in lang_set : pipe[l].st \in {"Complete", "Raised"}}

\* lines 255-284: load the file and return when it has no 'strings' (260-262);
\* in parallel mode build the pool and submit one task per locale, which
\* ThreadPoolExecutor refuses with max_workers = 0
Load ==
  /\ pc = "load"
  /\ main.pc = "localize"
  /\ IF ~main.has_strings
     THEN data' = <<>> /\ pc' = "returned"
     ELSE /\ data' = input
          /\ pc' = IF parallel
                   THEN (IF worker_cap <= 0 THEN "aborted" ELSE "pool")
                   ELSE "seq"
  /\ UNCHANGED <<input, parallel, config, pipe, collected, all_results, reported,
                 apply_idx, seq_idx, saved, save_count, first, tb, main>>

\* a pool worker takes the next queued task (line 283) when a slot is free
Start(l) ==
  /\ pc = "pool"
  /\ l \in lang_set
  /\ pipe[l].st = "Idle"
  /\ \A i, j \in 1..Len(languages) :
        (languages[j] = l /\ i < j) => pipe[languages[i]].st # "Idle"
  /\ Cardinality(running) < worker_cap
  /\ pipe' = [pipe EXCEPT ![l].st = "Diffing", ![l].starts = @ + 1]
  /\ UNCHANGED <<input, parallel, config, data, pc, collected, all_results, reported,
                 apply_idx, seq_idx, saved, save_count, first, tb, main>>

\* line 322: the sequential loop calls translate_language for the next locale
SeqCall ==
  /\ pc = "seq"
  /\ seq_idx <= Len(languages)
  /\ pipe[languages[seq_idx]].st = "Idle"
  /\ pipe' = [pipe EXCEPT ![languages[seq_idx]].st = "Diffing",
                          ![languages[seq_idx]].starts = @ + 1]
  /\ UNCHANGED <<input, parallel, config, data, pc, collected, all_results, reported,
                 apply_idx, seq_idx, saved, save_count, first, tb, main>>

\* ------------------------------------------------------ translate_language
\* line 186
\* the number of batches rounded down
estimate_mut(n) == n \div batch_size

estimate(n) == (n + batch_size - 1) \div batch_size

\* lines 175-199: the diff and the set-up of the batch loop
Diff(l) ==
  /\ l \in lang_set
  /\ pipe[l].st = "Diffing"
  /\ LET todo == strings_to_translate(data, l)
     IN pipe' = [pipe EXCEPT ![l].st = "BatchLoop",
                             ![l].strings_to_translate = todo,
                             ![l].estimated_batches = estimate(Len(todo))]
  /\ UNCHANGED <<input, parallel, config, data, pc, collected, all_results, reported,
                 apply_idx, seq_idx, saved, save_count, first, tb, main>>

\* the test of line 206 with > for >=
RECURSIVE fill_batch_mut(_, _)
fill_batch_mut(batch, rest) ==
  IF rest = <<>> \/ Len(batch) > batch_size THEN batch
  ELSE fill_batch_mut(Append(batch, Head(rest)), Tail(rest))

\* lines 201-206: keys are appended until the batch is full or the keys run out
RECURSIVE fill_batch(_, _)
fill_batch(batch, rest) ==
  IF rest = <<>> \/ Len(batch) >= batch_size THEN batch
  ELSE fill_batch(Append(batch, Head(rest)), Tail(rest))

\* language_translations[orig_key] = translation
dict_set(d, key, value) ==
  IF \E i \in 1..Len(d) : d[i].key = key
  THEN [i \in 1..Len(d) |-> IF d[i].key = key THEN [key |-> key, value |-> value] ELSE d[i]]
  ELSE Append(d, [key |-> key, value |-> value])

\* the map started afresh for every batch
store_mut(d, batch_keys, translations) ==
  [i \in 1..Min(Len(batch_keys), Len(translations)) |->
     [key |-> batch_keys[i], value |-> translations[i]]]

\* lines 211-212 / 234-235: for orig_key, translation in zip(batch_keys, translations)
RECURSIVE store(_, _, _)
store(d, batch_keys, translations) ==
  IF batch_keys = <<>> \/ translations = <<>> THEN d
  ELSE store(dict_set(d, Head(batch_keys), Head(translations)),
             Tail(batch_keys), Tail(translations))

\* lines 206-227 and 230-237: one batch is sent, reconciled and recorded
Batch(l) ==
  /\ l \in lang_set
  /\ pipe[l].st = "BatchLoop"
  /\ pipe[l].pos < Len(pipe[l].strings_to_translate)
  /\ LET p == pipe[l]
         batch == fill_batch(<<>>, SubSeq(p.strings_to_translate, p.pos + 1,
                                           Len(p.strings_to_translate)))
         out == translate_batch(batch, Collaborator(stub, batch, l))
     IN pipe' = [pipe EXCEPT
                   ![l].current_batch_num = @ + 1,
                   ![l].batch = batch,
                   ![l].sent = Append(@, batch),
                   ![l].language_translations = store(@, batch, out.result),
                   ![l].translated_count = @ + Len(batch),
                   ![l].pos = @ + Len(batch)]
  /\ UNCHANGED <<input, parallel, config, data, pc, collected, all_results, reported,
                 apply_idx, seq_idx, saved, save_count, first, tb, main>>

\* line 245: the pipeline returns its result
Return(l) ==
  /\ l \in lang_set
  /\ l \notin faulty
  /\ pipe[l].st = "BatchLoop"
  /\ pipe[l].pos = Len(pipe[l].strings_to_translate)
  /\ pipe' = [pipe EXCEPT ![l].st = "Complete"]
  /\ UNCHANGED <<input, parallel, config, data, pc, collected, all_results, reported,
                 apply_idx, seq_idx, saved, save_count, first, tb, main>>

\* an unexpected exception leaves translate_language; in sequential mode
\* nothing catches it (line 322) and it leaves localize_xcstrings too
Raise(l) ==
  /\ l \in lang_set
  /\ l \in faulty
  /\ pipe[l].st \in {"Diffing", "BatchLoop"}
  /\ pipe' = [pipe EXCEPT ![l].st = "Raised"]
  /\ pc' = IF parallel THEN pc ELSE "aborted"
  /\ UNCHANGED <<input, parallel, config, data, collected, all_results, reported,
                 apply_idx, seq_idx, saved, save_count, first, tb, main>>

\* the result tuple of line 245 (the duration is not modelled)
result_of(l) ==
  [lang_code |-> l, translations |-> pipe[l].language_translations,
   count |-> pipe[l].translated_count]

\* lines 290-303: as_completed yields a finished future; its result is kept,
\* or its exception is reported with the name of the locale
Collect(l) ==
  /\ pc = "pool"
  /\ l \in finished \ collected
  /\ collected' = collected \cup {l}
  /\ IF pipe[l].st = "Complete"
     THEN all_results' = Append(all_results, result_of(l)) /\ UNCHANGED reported
     ELSE reported' = Append(reported, l) /\ UNCHANGED all_results
  /\ UNCHANGED <<input, parallel, config, data, pc, pipe, apply_idx, seq_idx,
                 saved, save_count, first, tb, main>>

\* the merge moved inside the loop of line 290
all_collected_mut == collected # {}

\* the for loop of line 290 ends when every submitted future has been yielded
all_collected == collected = lang_set

\* lines 307-317: the next result of all_results is applied to the Catalog
ApplyNext ==
  /\ pc = "pool"
  /\ all_collected
  /\ apply_idx < Len(all_results)
  /\ data' = apply_translations(data, all_results[apply_idx + 1].lang_code,
                                all_results[apply_idx + 1].translations)
  /\ apply_idx' = apply_idx + 1
  /\ UNCHANGED <<input, parallel, config, pc, pipe, collected, all_results, reported,
                 seq_idx, saved, save_count, first, tb, main>>

\* lines 323-335: the sequential loop applies the result it just received
SeqApply ==
  /\ pc = "seq"
  /\ seq_idx <= Len(languages)
  /\ pipe[languages[seq_idx]].st = "Complete"
  /\ LET r == result_of(languages[seq_idx])
     IN data' = apply_translations(data, r.lang_code, r.translations)
  /\ seq_idx' = seq_idx + 1
  /\ UNCHANGED <<input, parallel, config, pc, pipe, collected, all_results, reported,
                 apply_idx, saved, save_count, first, tb, main>>

\* line 338 is reached when the branch taken at line 276 is over
merge_over ==
  IF parallel THEN pc = "pool" /\ all_collected /\ apply_idx = Len(all_results)
  ELSE pc = "seq" /\ seq_idx > Len(languages)

\* line 338: save_xcstrings(data, output_file)
Save ==
  /\ merge_over
  /\ saved' = <<data>>
  /\ save_count' = save_count + 1
  /\ pc' = "done"
  /\ UNCHANGED <<input, parallel, config, data, pipe, collected, all_results, reported,
                 apply_idx, seq_idx, first, tb, main>>

\* localize_xcstrings is called a second time: on the same input file in either
\* mode, or with the same arguments on the file the first call wrote
SecondRun(src, par) ==
  /\ pc \in {"done", "aborted"}
  /\ first = <<>>
  /\ src = "output" => saved # <<>>
  /\ src = "output" => par = parallel
  /\ first' = <<[input |-> input, parallel |-> parallel, saved |-> saved, src |-> src,
               order |-> [i \in 1..Len(all_results) |-> all_results[i].lang_code]]>>
  /\ input' = IF src = "output" THEN saved[1] ELSE input
  /\ parallel' = par
  /\ data' = <<>>
  /\ pc' = "load"
  /\ pipe' = [l \in Locales |-> IdlePipe]
  /\ collected' = {}
  /\ all_results' = <<>>
  /\ reported' = <<>>
  /\ apply_idx' = 0
  /\ seq_idx' = 1
  /\ saved' = <<>>
  /\ save_count' = 0
  /\ UNCHANGED <<config, tb, main>>

Pipeline(l) == Diff(l) \/ Batch(l) \/ Return(l) \/ Raise(l)

Next ==
  \/ Load
  \/ \E l \in Locales : Start(l)
  \/ SeqCall
  \/ \E l \in Locales : Pipeline(l)
  \/ \E l \in Locales : Collect(l)
  \/ ApplyNext
  \/ SeqApply
  \/ Save

Spec == Init /\ [][Next]_vars

\* two calls of localize_xcstrings one after the other
NextTwo == Next \/ \E src \in {"input", "output"}, par \in BOOLEAN : SecondRun(src, par)

InitTwo == InitWith(Catalogs, TablesTwo, Stubs)

SpecTwo == InitTwo /\ [][NextTwo]_vars

\* ------------------------------------------------------------------ main
\* lines 376-382: the credential is read from the environment
MainCheckKey ==
  /\ main.pc = "start"
  /\ main' = IF main.api_key THEN [main EXCEPT !.pc = "check_file"]
             ELSE [main EXCEPT !.pc = "exited", !.exit_status = 1]
  /\ UNCHANGED <<input, parallel, config, data, pc, pipe, collected, all_results,
                 reported, apply_idx, seq_idx, saved, save_count, first, tb>>

\* lines 385-390: the input file must exist
MainCheckFile ==
  /\ main.pc = "check_file"
  /\ main' = IF main.file_exists THEN [main EXCEPT !.pc = "confirm"]
             ELSE [main EXCEPT !.pc = "exited", !.exit_status = 1]
  /\ UNCHANGED <<input, parallel, config, data, pc, pipe, collected, all_results,
                 reported, apply_idx, seq_idx, saved, save_count, first, tb>>

\* lines 405-414: the confirmation prompt, then localize_xcstrings is called
MainConfirm ==
  /\ main.pc = "confirm"
  /\ main' = IF main.answer = "y" THEN [main EXCEPT !.pc = "localize"]
             ELSE [main EXCEPT !.pc = "exited", !.exit_status = 0]
  /\ UNCHANGED <<input, parallel, config, data, pc, pipe, collected, all_results,
                 reported, apply_idx, seq_idx, saved, save_count, first, tb>>

\* lines 414-434: localize_xcstrings returned, main prints the next steps and
\* ends; an exception that left localize_xcstrings ends the program instead
MainReturn ==
  /\ main.pc = "localize"
  /\ pc \in {"done", "returned", "aborted"}
  /\ main' = [main EXCEPT !.pc = "exited",
                          !.exit_status = IF pc = "aborted" THEN 1 ELSE 0]
  /\ UNCHANGED <<input, parallel, config, data, pc, pipe, collected, all_results,
                 reported, apply_idx, seq_idx, saved, save_count, first, tb>>

MainEnvs ==
  [api_key : BOOLEAN, file_exists : BOOLEAN, has_strings : BOOLEAN,
   answer : {"y", "n"}, pc : {"start"}, exit_status : {-1}]
\* main passes no locale table: TARGET_LANGUAGES, which is not empty
TablesMain == {SubSeq(LocaleOrder, 1, n) : n \in 1..MaxLocalesTwo}

\* line 414: localize_xcstrings(input_file, output_file, api_key), parallel by default
InitMain ==
  /\ input \in Catalogs
  /\ languages \in TablesMain
  /\ parallel = TRUE
  /\ stub \in Stubs
  /\ faulty \in FaultySets(languages)
  /\ data = <<>>
  /\ pc = "load"
  /\ pipe = [l \in Locales |-> IdlePipe]
  /\ collected = {}
  /\ all_results = <<>>
  /\ reported = <<>>
  /\ apply_idx = 0
  /\ seq_idx = 1
  /\ saved = <<>>
  /\ save_count = 0
  /\ first = <<>>
  /\ tb = NoCall
  /\ main \in MainEnvs

NextMain ==
  \/ MainCheckKey
  \/ MainCheckFile
  \/ MainConfirm
  \/ MainReturn
  \/ Load
  \/ \E l \in Locales : Start(l)
  \/ \E l \in Locales : Pipeline(l)
  \/ \E l \in Locales : Collect(l)
  \/ ApplyNext
  \/ Save

SpecMain == InitMain /\ [][NextMain]_vars

\* ------------------------------------------- translate_batch on its own
\* PCT stands for a placeholder token such as %@ or %lld
PCT == "%"
TextPool == {<<"A">>, <<"B">>, <<"C">>, <<PCT>>}
Alphabet == {"a", "1", PCT, BAR, DOT, SP, NL}
RECURSIVE SeqsUpTo(_, _)
SeqsUpTo(S, n) ==
  IF n = 0 THEN {<<>>}
  ELSE LET shorter == SeqsUpTo(S, n - 1)
       IN shorter \cup {Append(q, x) : q \in shorter, x \in S}
\* a batch holds keys of the catalog's mapping (lines 176-182, 201-203), which
\* are distinct
Batches ==
  {b \in SeqsUpTo(TextPool, MaxBatch) : \A i, j \in 1..Len(b) : b[i] = b[j] => i = j}
Responses == {RespError, RespNone} \cup {RespText(t) : t \in SeqsUpTo(Alphabet, MaxRespLen)}

InitBatch ==
  /\ input = <<>>
  /\ languages = <<>>
  /\ parallel = FALSE
  /\ stub = "fail"
  /\ faulty = {}
  /\ data = <<>>
  /\ pc = "unit"
  /\ pipe = [l \in Locales |-> IdlePipe]
  /\ collected = {}
  /\ all_results = <<>>
  /\ reported = <<>>
  /\ apply_idx = 0
  /\ seq_idx = 1
  /\ saved = <<>>
  /\ save_count = 0
  /\ first = <<>>
  /\ tb \in [texts : Batches, resp : Responses, out : {<<>>}]
  /\ main = MainCall

\* translate_batch(client, texts, ...) is called and returns or raises
TranslateBatchCall ==
  /\ pc = "unit"
  /\ tb.out = <<>>
  /\ tb' = [tb EXCEPT !.out = <<translate_batch(tb.texts, tb.resp)>>]
  /\ UNCHANGED <<input, parallel, config, data, pc, pipe, collected, all_results,
                 reported, apply_idx, seq_idx, saved, save_count, first, main>>

NextBatch == TranslateBatchCall

SpecBatch == InitBatch /\ [][NextBatch]_vars

\* ================================================================ claims
run_over == pc \in {"done", "aborted"}
blank(key) == strip(key) = <<>>
locs_for(entry, code) == {j \in 1..Len(entry.locs) : entry.locs[j].code = code}
\* the Catalog as a mapping key -> locale -> localization
as_mapping(cat) ==
  [key \in keys_of(cat) |->
     [hasLoc |-> entry_of(cat, key).hasLoc, locs |-> Range(entry_of(cat, key).locs)]]
\* the entry of position i holds for code exactly one localization, the
\* translated one with this value
translated_once(entry, code, value) ==
  /\ Cardinality(locs_for(entry, code)) = 1
  /\ \A j \in locs_for(entry, code) :
        entry.locs[j] = [code |-> code, state |-> "translated", value |-> value]

\* C1: the Catalog is written only while no pipeline is in Diffing or
\* BatchLoop, and in concurrent mode only once every submitted pipeline has
\* returned or failed.
C1_CatalogReadOnlyWhilePipelinesRun ==
  [][(pc \in {"pool", "seq"} /\ data' # data) =>
       (running = {} /\ (parallel => finished = lang_set))]_vars

C1_Witness ==
  /\ parallel /\ Len(languages) >= 2 /\ pc = "pool"
  /\ apply_idx >= 1 /\ data # input

\* C2: a concurrent and a sequential run over the same input, locale table
\* and stub collaborator save byte-identical Catalogs.
C2_ModesByteIdentical ==
  (first # <<>> /\ first[1].src = "input" /\ first[1].parallel # parallel
     /\ first[1].saved # <<>> /\ pc = "done")
    => saved = first[1].saved

\* C3: translate_batch returns a list as long as the batch, whatever the
\* collaborator answered, and never raises.
C3_LengthInvariant ==
  tb.out # <<>> => (~tb.out[1].raised /\ Len(tb.out[1].result) = Len(tb.texts))

C3_Witness ==
  /\ tb.out # <<>> /\ tb.texts # <<>> /\ tb.resp.kind = "text"
  /\ Len(parse_lines(split_lines(strip(tb.resp.content)))) > Len(tb.texts)

\* C4: every localization of the input Catalog is in the Catalog in memory and
\* in the saved Catalog with the same state and value, at the same place.
preserved_in(cat) ==
  /\ Len(cat) = Len(input)
  /\ \A i \in 1..Len(input) :
        /\ cat[i].key = input[i].key
        /\ input[i].hasLoc => cat[i].hasLoc
        /\ Len(cat[i].locs) >= Len(input[i].locs)
        /\ \A j \in 1..Len(input[i].locs) : cat[i].locs[j] = input[i].locs[j]

C4_ExistingLocalizationsKept ==
  /\ pc # "load" => preserved_in(data)
  /\ saved # <<>> => preserved_in(saved[1])

C4_Witness ==
  /\ pc = "done" /\ "fr" \in lang_set /\ saved[1] # input
  /\ \E i \in 1..Len(input) : input[i].locs # <<>> /\ Len(saved[1][i].locs) > 1

\* C5: when a pipeline raises, the run still ends by saving, the failure is
\* reported with the locale, and every other locale is merged.
C5_FailureIsolated ==
  (run_over /\ faulty # {}) =>
    /\ saved # <<>>
    /\ Range(reported) = faulty
    /\ \A l \in lang_set \ faulty : \A i \in 1..Len(data) :
          ~blank(data[i].key) => has_loc(data[i], l)

\* C6 as stated: when every collaborator call fails, every non-empty key has
\* for every configured locale it lacked exactly one translated localization
\* holding its own source text.
C6_FallbackEveryNonEmptyKey ==
  (stub = "fail" /\ pc = "done") =>
    \A i \in 1..Len(input) : \A l \in lang_set :
       (input[i].key # <<>> /\ ~has_loc(input[i], l))
         => translated_once(saved[1][i], l, input[i].key)

\* C6 amended: when every collaborator call fails, the saved Catalog holds, for
\* every key that is not blank and every configured locale it lacked whose
\* pipeline returned, exactly one translated localization with the key's own
\* text; no other (key, locale) pair is written.
C6_FallbackSafety ==
  (stub = "fail" /\ pc = "done") =>
    \A i \in 1..Len(input) : \A l \in lang_set :
       IF ~blank(input[i].key) /\ ~has_loc(input[i], l) /\ l \notin faulty
       THEN translated_once(saved[1][i], l, input[i].key)
       ELSE {saved[1][i].locs[j] : j \in locs_for(saved[1][i], l)}
              = {input[i].locs[j] : j \in locs_for(input[i], l)}

C6_Witness ==
  /\ stub = "fail" /\ pc = "done" /\ Len(languages) >= 2
  /\ \E i, j \in 1..Len(input) :
        /\ blank(input[i].key) /\ input[i].key # <<>>
        /\ \A l \in lang_set : translated_once(saved[1][j], l, input[j].key)

second_on_output == first # <<>> /\ first[1].src = "output"
diffed(l) == pipe[l].st \in {"BatchLoop", "Complete", "Raised"}

C8_CompletionOrderIrrelevant ==
  /\ \A i, j \in 1..Len(all_results) :
        all_results[i].lang_code = all_results[j].lang_code => i = j
  /\ (first # <<>> /\ first[1].src = "input" /\ first[1].parallel /\ parallel
        /\ first[1].saved # <<>> /\ pc = "done")
       => as_mapping(saved[1]) = as_mapping(first[1].saved[1])

C8_Witness ==
  /\ first # <<>> /\ first[1].src = "input" /\ first[1].parallel /\ parallel
  /\ pc = "done" /\ Len(all_results) >= 2
  /\ first[1].order # [i \in 1..Len(all_results) |-> all_results[i].lang_code]
  /\ saved # first[1].saved
  /\ saved[1] # input

\* C9: when no pipeline raises, the run ends having saved exactly once a
\* Catalog in which every non-empty key has every configured locale.
C9_RunEndsSavedComplete ==
  (run_over /\ faulty = {}) =>
    /\ pc = "done"
    /\ save_count = 1
    /\ \A i \in 1..Len(saved[1]) : \A l \in lang_set :
          saved[1][i].key # <<>> => has_loc(saved[1][i], l)

index_of(l) == CHOOSE i \in 1..Len(languages) : languages[i] = l

\* C10: in a concurrent run at most min(number of locales, cap) pipelines
\* execute at once, every locale is started at most once and exactly once
\* when the run is over, and a locale beyond the cap starts only when a
\* pipeline has finished.
C10_BoundedPool ==
  /\ [](parallel =>
          /\ Cardinality(running) <= Min(Len(languages), max_workers)
          /\ \A l \in lang_set : pipe[l].starts <= 1
          /\ pc = "done" => \A l \in lang_set : pipe[l].starts = 1)
  /\ [][\A l \in lang_set :
          (parallel /\ pipe[l].st = "Idle" /\ pipe'[l].st = "Diffing"
             /\ index_of(l) > Min(Len(languages), max_workers))
            => finished # {}]_vars

C10_Witness ==
  /\ parallel /\ Len(languages) > max_workers
  /\ Cardinality(running) = max_workers
  /\ pipe[languages[Len(languages)]].st = "Diffing"

\* the response is a text whose non-empty lines carry no separator
bare_lines(content) ==
  LET ls == split_lines(content)
  IN /\ \A i \in 1..Len(ls) : ls[i] # <<>> /\ strip(ls[i]) = ls[i]
     /\ \A i \in 1..Len(ls) : find(ls[i], <<BAR>>) = 0 /\ find(ls[i], <<DOT, SP>>) = 0
\* a batch of three and the two unindexed lines answering its last two items
first_line_dropped ==
  /\ tb.out # <<>> /\ Len(tb.texts) = 3 /\ tb.resp.kind = "text"
  /\ bare_lines(tb.resp.content)
  /\ Len(split_lines(tb.resp.content)) = 2

\* C11 as stated: with the first line dropped, the source text falls back at
\* batch position 0 and the returned lines fill the following positions.
C11_FallbackAtFront ==
  first_line_dropped =>
    tb.out[1].result = <<tb.texts[1]>> \o split_lines(tb.resp.content)

\* C11 amended: the returned lines fill batch positions 0 and 1 and the source
\* text falls back at the last position: ["A","B","C"] with the lines
\* B-translation / C-translation gives ["B-translation","C-translation","C"].
C11_FallbackAtEnd ==
  first_line_dropped =>
    tb.out[1].result = split_lines(tb.resp.content) \o <<tb.texts[3]>>

C11_Witness ==
  /\ first_line_dropped
  /\ tb.texts = << <<"A">>, <<"B">>, <<"C">> >>
  /\ tb.resp.content = <<"a", NL, "1">>
  /\ tb.out[1].result = << <<"a">>, <<"1">>, <<"C">> >>

\* the stripped non-empty lines of a response text, in response order
nonempty_lines(content) ==
  LET ls == split_lines(strip(content))
      idx == {i \in 1..Len(ls) : strip(ls[i]) # <<>>}
  IN [k \in 1..Cardinality(idx) |->
        strip(ls[CHOOSE i \in idx : Cardinality({j \in idx : j <= i}) = k])]
has_token(text) == PCT \in Range(text)

\* C12: when the response line of a batch item holds the item's placeholder
\* token, so does the translation returned for the item, with or without an
\* index prefix and whatever the surrounding text.
C12_PlaceholdersKept ==
  (tb.out # <<>> /\ tb.resp.kind = "text") =>
    LET ne == nonempty_lines(tb.resp.content)
    IN \A i \in 1..Min(Len(tb.texts), Len(ne)) :
          (has_token(tb.texts[i]) /\ has_token(ne[i])) => has_token(tb.out[1].result[i])

\* the configuration error main or localize_xcstrings ran into
config_error ==
  \/ ~main.api_key
  \/ main.api_key /\ ~main.file_exists
  \/ main.api_key /\ main.file_exists /\ main.answer = "y" /\ ~main.has_strings

\* C13: a missing credential, a missing input file and a Catalog without
\* 'strings' each end the program with a non-zero exit status, with no
\* pipeline started, no collaborator call made and no output file written.
C13_FatalErrorsExitNonZero ==
  (main.pc = "exited" /\ config_error) =>
    /\ main.exit_status # 0
    /\ \A l \in Locales : pipe[l].starts = 0 /\ pipe[l].current_batch_num = 0
    /\ saved = <<>>

diff_done(l) == l \in lang_set /\ pipe[l].st \in {"BatchLoop", "Complete"}
position_of(cat, key) == CHOOSE i \in 1..Len(cat) : cat[i].key = key
\* todo lists each of its keys once, in Catalog order
in_catalog_order(todo) ==
  \A i, j \in 1..Len(todo) :
     i < j => position_of(input, todo[i]) < position_of(input, todo[j])

\* C14 as stated: the pending sequence of a locale holds exactly the keys
\* that are not the empty string and lack a localization for the locale, in
\* Catalog order, each once.
C14_PendingNonEmptyKeys ==
  \A l \in Locales : diff_done(l) =>
    LET todo == pipe[l].strings_to_translate
    IN /\ Range(todo) = {k \in keys_of(input) : k # <<>> /\ ~has_loc(entry_of(input, k), l)}
       /\ in_catalog_order(todo)

\* C14 amended: the pending sequence holds exactly the keys that are not
\* blank (non-empty after strip()) and lack a localization for the locale, in
\* Catalog order, each once.
C14_PendingNonBlankKeys ==
  \A l \in Locales : diff_done(l) =>
    LET todo == pipe[l].strings_to_translate
    IN /\ Range(todo) = {k \in keys_of(input) : ~blank(k) /\ ~has_loc(entry_of(input, k), l)}
       /\ in_catalog_order(todo)

C14_Witness ==
  /\ diff_done("fr")
  /\ Len(input) = 3 /\ input[1].key = <<>> /\ has_loc(input[3], "fr")
  /\ pipe["fr"].strings_to_translate = <<input[2].key>>

\* C15: the i-th non-empty response line gives the translation of batch item
\* i, whatever index it carries; positions beyond the lines keep their own
\* source string; lines beyond the batch are dropped.
C15_PositionalPairing ==
  (tb.out # <<>> /\ tb.texts # <<>>) =>
    LET ne == IF tb.resp.kind = "text" THEN nonempty_lines(tb.resp.content) ELSE <<>>
        res == tb.out[1].result
    IN /\ Len(res) = Len(tb.texts)
       /\ \A i \in 1..Len(tb.texts) :
             res[i] = IF i <= Len(ne) THEN parse_line(ne[i]) ELSE tb.texts[i]

C15_Witness ==
  /\ tb.out # <<>>
  /\ tb.texts = << <<"A">>, <<"B">> >>
  /\ tb.resp = RespText(<<"1", BAR, "a">>)
  /\ tb.out[1].result = << <<"a">>, <<"B">> >>

RECURSIVE concat(_)
concat(seqs) == IF seqs = <<>> THEN <<>> ELSE Head(seqs) \o concat(Tail(seqs))

\* C16: the batches a pipeline sends hold between 1 and batch_size keys, all
\* but the last hold batch_size, and in send order they concatenate to a
\* prefix of the pending sequence, the whole of it once the pipeline returns,
\* with no key twice.
C16_BatchesPartition ==
  \A l \in Locales :
    LET p == pipe[l]
        all == concat(p.sent)
    IN /\ \A i \in 1..Len(p.sent) : Len(p.sent[i]) >= 1 /\ Len(p.sent[i]) <= batch_size
       /\ \A i \in 1..(Len(p.sent) - 1) : Len(p.sent[i]) = batch_size
       /\ Len(all) <= Len(p.strings_to_translate)
       /\ all = SubSeq(p.strings_to_translate, 1, Len(all))
       /\ \A i, j \in 1..Len(all) : all[i] = all[j] => i = j
       /\ p.st = "Complete" => all = p.strings_to_translate

C16_Witness ==
  \E l \in lang_set :
    /\ pipe[l].st = "Complete"
    /\ Len(pipe[l].sent) = 2
    /\ Len(pipe[l].sent[1]) = batch_size /\ Len(pipe[l].sent[2]) < batch_size

recorded_keys(l) ==
  [i \in 1..Len(pipe[l].language_translations) |-> pipe[l].language_translations[i].key]
recorded_value(l, key) ==
  pipe[l].language_translations[
    CHOOSE i \in 1..Len(pipe[l].language_translations) :
      pipe[l].language_translations[i].key = key].value
batch_failed(l, batch) == Collaborator(stub, batch, l).kind = "error"

\* C17: in every state the local map of a pipeline holds every key of every
\* batch sent so far, so a batch is sent only when the batches before it are
\* recorded; the keys of a batch whose call failed are recorded with their
\* source text, and the pipeline goes on to send every later batch.
C17_BatchesInTurn ==
  /\ [](\A l \in Locales :
          /\ recorded_keys(l) = concat(pipe[l].sent)
          /\ \A n \in 1..Len(pipe[l].sent) :
                batch_failed(l, pipe[l].sent[n]) =>
                  \A i \in 1..Len(pipe[l].sent[n]) :
                     recorded_value(l, pipe[l].sent[n][i]) = pipe[l].sent[n][i]
          /\ pipe[l].st = "Complete" => concat(pipe[l].sent) = pipe[l].strings_to_translate)
  /\ [][\A l \in Locales :
          pipe'[l].current_batch_num = pipe[l].current_batch_num + 1 =>
            /\ recorded_keys(l) = concat(pipe[l].sent)
            /\ pipe'[l].sent = Append(pipe[l].sent, pipe'[l].batch)]_vars

C17_Witness ==
  \E l \in lang_set :
    /\ stub = "failfirst" /\ pipe[l].st = "Complete" /\ Len(pipe[l].sent) = 2
    /\ batch_failed(l, pipe[l].sent[1]) /\ ~batch_failed(l, pipe[l].sent[2])
    /\ recorded_value(l, pipe[l].sent[1][1]) = pipe[l].sent[1][1]
    /\ recorded_value(l, pipe[l].sent[2][1]) = Tr(l, pipe[l].sent[2][1])

\* the results already applied to the Catalog in memory
applied ==
  IF parallel THEN {all_results[i] : i \in 1..apply_idx}
  ELSE {result_of(languages[i]) : i \in 1..(seq_idx - 1)}

\* C18: once a result is applied, each of its (key, translation) pairs is
\* stored as the translated localization of its locale, and applying the same
\* result again leaves the Catalog as it is.
C18_MergeIdempotent ==
  pc \in {"pool", "seq", "done"} =>
    \A r \in applied :
       /\ \A i \in 1..Len(r.translations) :
             translated_once(entry_of(data, r.translations[i].key), r.lang_code,
                             r.translations[i].value)
       /\ apply_translations(data, r.lang_code, r.translations) = data

C18_Witness ==
  /\ pc = "pool" /\ apply_idx = 1 /\ Len(all_results) = 2
  /\ Len(all_results[1].translations) >= 2
  /\ data # input
  /\ \E i \in 1..Len(input) : ~input[i].hasLoc /\ data[i].hasLoc

\* the least number of batches of batch_size keys that hold n keys
ceil_batches(n) == CHOOSE b \in 0..n : b * batch_size >= n /\ (b = 0 \/ (b - 1) * batch_size < n)

\* C19: a pipeline that has returned holds a translation for exactly the keys
\* its diff found pending, its count is the size of that map, and it made
\* ceil(pending / batch_size) calls, none when nothing was pending; the batch
\* counter is never above the announced number of batches.
C19_ReturnedPipelineAccounts ==
  \A l \in Locales :
     LET p == pipe[l] IN
       /\ p.current_batch_num <= p.estimated_batches \/ ~diffed(l)
       /\ p.st = "Complete" =>
            /\ Range(recorded_keys(l)) = Range(p.strings_to_translate)
            /\ p.translated_count = Len(p.language_translations)
            /\ Len(p.sent) = p.current_batch_num
            /\ p.current_batch_num = ceil_batches(Len(p.strings_to_translate))
            /\ p.strings_to_translate = <<>> =>
                 p.sent = <<>> /\ p.language_translations = <<>>

C19_Witness ==
  \E l \in lang_set :
    /\ pipe[l].st = "Complete"
    /\ Len(pipe[l].strings_to_translate) = 3
    /\ pipe[l].current_batch_num = 2
    /\ pipe[l].translated_count = 3
    /\ Len(pipe[l].sent[2]) = 1
    /\ \E m \in lang_set : pipe[m].st = "Complete" /\ Len(pipe[m].strings_to_translate) = 2

\* C20: with an empty locale table no pipeline starts and no call is made in
\* either mode, and the run completes by saving a Catalog equal to the loaded
\* one.
C20_EmptyTableSavesInput ==
  languages = <<>> =>
    /\ \A l \in Locales : pipe[l] = IdlePipe
    /\ run_over => pc = "done" /\ save_count = 1 /\ saved = <<input>>

====
